---------------------------- MODULE Spec2Model ----------------------------
(***************************************************************************)
(* SlotMachine.h: the static asset tables of the slot-machine firmware     *)
(* (menu labels, the reel glyph bitmaps, the note frequencies) and the     *)
(* 20-byte scratch buffer through which a label is staged for the display. *)
(*                                                                         *)
(* Two state machines share the module.  Spec applies the three table      *)
(* lookups to inputs drawn from bounded sets and keeps the last two        *)
(* results.  SpecDisplay is the staging of a label: the main task copies   *)
(* string_table[i] into buffer byte by byte and prints buffer, while an    *)
(* interrupt handler may restage buffer whenever interrupts are enabled.   *)
(***************************************************************************)
EXTENDS Integers, Sequences, FiniteSets, TLC

VARIABLES
    result,     \* the outcome of the last table lookup
    prev,       \* the outcome of the lookup before it
    pc,         \* main task: "idle", "copy", "write", "done"
    idx,        \* main task: the menu index being shown
    pos,        \* main task: offset of the next byte strcpy moves
    buffer,     \* char buffer[20], a function on 0 .. sizeof_buffer - 1
    overrun,    \* number of bytes written past the end of buffer
    ien,        \* global interrupt enable flag
    preempted,  \* the handler ran since the main task began its copy
    display     \* the display line and who wrote it last

vars == <<result, prev, pc, idx, pos, buffer, overrun, ien, preempted, display>>

\* ---- menu label strings (SlotMachine.h:2-15), the characters of each literal ----
string_00 == "PayedOut           "
string_01 == "Wagered            "
string_02 == "Plays              "
string_03 == "2 Match            "
string_04 == "3 Match            "
string_05 == "Ship 1 Match       "
string_06 == "Ship 2 Match       "
\* string_07 padded one column too far
string_07_wide == "Ship 3 Match        "
string_07 == "Ship 3 Match       "
string_08 == "1 Alien            "
string_09 == "2 Alien            "
string_10 == "3 Alien            "
string_11 == "EEprom             "
string_12 == "Credits            "
\* string_13 without its padding
string_13_unpadded == "Back"
string_13 == "Back               "

\* string_table with the EEprom and Credits entries in each other's place
string_table_swapped ==
    << string_00,
       string_01,
       string_02,
       string_03,
       string_04,
       string_05,
       string_06,
       string_07,
       string_08,
       string_09,
       string_10,
       string_12,
       string_11,
       string_13 >>

\* string_table[] (SlotMachine.h:17-30); C index i is element i + 1 here
string_table ==
    << string_00,
       string_01,
       string_02,
       string_03,
       string_04,
       string_05,
       string_06,
       string_07,
       string_08,
       string_09,
       string_10,
       string_11,
       string_12,
       string_13 >>

\* ---- menu index constants (SlotMachine.h:32-45) ----
MENU_PAYED_OUT == 0
MENU_WAGERED == 1
MENU_PLAYS == 2
MENU_2_MATCH == 3
MENU_3_MATCH == 4
MENU_SHIP_1_MATCH == 5
MENU_SHIP_2_MATCH == 6
MENU_SHIP_3_MATCH == 7
MENU_1_ALIEN == 8
MENU_2_ALIEN == 9
MENU_3_ALIEN == 10
MENU_EEPROM == 11
MENU_CREDITS == 12
MENU_BACK == 13

\* reel with the last row of glyph 24 left out
reel_missing_row ==
    <<
       \b10011001, \b01011010, \b00111100, \b11111111, \b11111111, \b00111100, \b01011010, \b10011001,
       \b00000000, \b00000000, \b00000000, \b00011000, \b00011000, \b00000000, \b00000000, \b00000000,
       \b11111111, \b11111111, \b00000000, \b11111111, \b11111111, \b00000000, \b11111111, \b11111111,
       \b01100110, \b11111111, \b11111111, \b11111111, \b11111111, \b01111110, \b00111100, \b00011000,
       \b00000000, \b01100000, \b01100000, \b00000000, \b00000000, \b00000110, \b00000110, \b00000000,
       \b00000000, \b01111110, \b01111110, \b00001100, \b00011000, \b00111000, \b00111000, \b00000000,
       \b00011000, \b00111100, \b01011010, \b00111000, \b00011100, \b01011010, \b00111100, \b00011000,
       \b00000000, \b01100000, \b01100000, \b00011000, \b00011000, \b00000110, \b00000110, \b00000000,
       \b00100100, \b00100100, \b11111111, \b00100100, \b00100100, \b11111111, \b00100100, \b00100100,
       \b00000000, \b00000000, \b00000000, \b11111111, \b11111111, \b00000000, \b00000000, \b00000000,
       \b00000000, \b01100110, \b01100110, \b00000000, \b00000000, \b01100110, \b01100110, \b00000000,
       \b11111111, \b10000001, \b10000001, \b11110011, \b11100111, \b11000111, \b11000111, \b11111111,
       \b11011011, \b11011011, \b00000000, \b11011011, \b11011011, \b00000000, \b11011011, \b11011011,
       \b00000000, \b01100110, \b01100110, \b00011000, \b00011000, \b01100110, \b01100110, \b00000000,
       \b00000000, \b11111111, \b11111111, \b00000000, \b00000000, \b11111111, \b11111111, \b00000000,
       \b01000010, \b00100100, \b01111110, \b11011011, \b11111111, \b11111111, \b10100101, \b00100100,
       \b00000000, \b00100100, \b00000000, \b00011000, \b01000010, \b01000010, \b00111100, \b00011000,
       \b00000000, \b11011011, \b11011011, \b00000000, \b00000000, \b11011011, \b11011011, \b00000000,
       \b00000000, \b00000000, \b00111100, \b01111110, \b10101011, \b01111110, \b00111100, \b00000000,
       \b00011000, \b00111100, \b01111110, \b11011011, \b11111111, \b00100100, \b01011010, \b10100101,
       \b00011000, \b00111100, \b01111110, \b11011011, \b11111111, \b00100100, \b01011010, \b01000010,
       \b00000000, \b10000001, \b11111111, \b11011011, \b11111111, \b01111110, \b00100100, \b01000010,
       \b00010000, \b00110000, \b00010000, \b00010000, \b00010000, \b00010000, \b00010000, \b00111000,
       \b00111000, \b01000100, \b10000010, \b00000100, \b00001000, \b00010000, \b00100000, \b11111110,
       \b11111111, \b00000010, \b00000100, \b00011100, \b00000010, \b00000100, \b00001000
    >>

\* reel with glyphs 18 (SpaceShip) and 19 (Alien 1) in each other's place
reel_swapped_18_19 ==
    <<
       \b10011001, \b01011010, \b00111100, \b11111111, \b11111111, \b00111100, \b01011010, \b10011001,
       \b00000000, \b00000000, \b00000000, \b00011000, \b00011000, \b00000000, \b00000000, \b00000000,
       \b11111111, \b11111111, \b00000000, \b11111111, \b11111111, \b00000000, \b11111111, \b11111111,
       \b01100110, \b11111111, \b11111111, \b11111111, \b11111111, \b01111110, \b00111100, \b00011000,
       \b00000000, \b01100000, \b01100000, \b00000000, \b00000000, \b00000110, \b00000110, \b00000000,
       \b00000000, \b01111110, \b01111110, \b00001100, \b00011000, \b00111000, \b00111000, \b00000000,
       \b00011000, \b00111100, \b01011010, \b00111000, \b00011100, \b01011010, \b00111100, \b00011000,
       \b00000000, \b01100000, \b01100000, \b00011000, \b00011000, \b00000110, \b00000110, \b00000000,
       \b00100100, \b00100100, \b11111111, \b00100100, \b00100100, \b11111111, \b00100100, \b00100100,
       \b00000000, \b00000000, \b00000000, \b11111111, \b11111111, \b00000000, \b00000000, \b00000000,
       \b00000000, \b01100110, \b01100110, \b00000000, \b00000000, \b01100110, \b01100110, \b00000000,
       \b11111111, \b10000001, \b10000001, \b11110011, \b11100111, \b11000111, \b11000111, \b11111111,
       \b11011011, \b11011011, \b00000000, \b11011011, \b11011011, \b00000000, \b11011011, \b11011011,
       \b00000000, \b01100110, \b01100110, \b00011000, \b00011000, \b01100110, \b01100110, \b00000000,
       \b00000000, \b11111111, \b11111111, \b00000000, \b00000000, \b11111111, \b11111111, \b00000000,
       \b01000010, \b00100100, \b01111110, \b11011011, \b11111111, \b11111111, \b10100101, \b00100100,
       \b00000000, \b00100100, \b00000000, \b00011000, \b01000010, \b01000010, \b00111100, \b00011000,
       \b00000000, \b11011011, \b11011011, \b00000000, \b00000000, \b11011011, \b11011011, \b00000000,
       \b00011000, \b00111100, \b01111110, \b11011011, \b11111111, \b00100100, \b01011010, \b10100101,
       \b00000000, \b00000000, \b00111100, \b01111110, \b10101011, \b01111110, \b00111100, \b00000000,
       \b00011000, \b00111100, \b01111110, \b11011011, \b11111111, \b00100100, \b01011010, \b01000010,
       \b00000000, \b10000001, \b11111111, \b11011011, \b11111111, \b01111110, \b00100100, \b01000010,
       \b00010000, \b00110000, \b00010000, \b00010000, \b00010000, \b00010000, \b00010000, \b00111000,
       \b00111000, \b01000100, \b10000010, \b00000100, \b00001000, \b00010000, \b00100000, \b11111110,
       \b11111111, \b00000010, \b00000100, \b00011100, \b00000010, \b00000100, \b00001000, \b11100000
    >>

\* ---- reel[] (SlotMachine.h:51-277): the B........ literals of binary.h are base-2 numbers ----
reel ==
    <<
       \b10011001, \b01011010, \b00111100, \b11111111, \b11111111, \b00111100, \b01011010, \b10011001,
       \b00000000, \b00000000, \b00000000, \b00011000, \b00011000, \b00000000, \b00000000, \b00000000,
       \b11111111, \b11111111, \b00000000, \b11111111, \b11111111, \b00000000, \b11111111, \b11111111,
       \b01100110, \b11111111, \b11111111, \b11111111, \b11111111, \b01111110, \b00111100, \b00011000,
       \b00000000, \b01100000, \b01100000, \b00000000, \b00000000, \b00000110, \b00000110, \b00000000,
       \b00000000, \b01111110, \b01111110, \b00001100, \b00011000, \b00111000, \b00111000, \b00000000,
       \b00011000, \b00111100, \b01011010, \b00111000, \b00011100, \b01011010, \b00111100, \b00011000,
       \b00000000, \b01100000, \b01100000, \b00011000, \b00011000, \b00000110, \b00000110, \b00000000,
       \b00100100, \b00100100, \b11111111, \b00100100, \b00100100, \b11111111, \b00100100, \b00100100,
       \b00000000, \b00000000, \b00000000, \b11111111, \b11111111, \b00000000, \b00000000, \b00000000,
       \b00000000, \b01100110, \b01100110, \b00000000, \b00000000, \b01100110, \b01100110, \b00000000,
       \b11111111, \b10000001, \b10000001, \b11110011, \b11100111, \b11000111, \b11000111, \b11111111,
       \b11011011, \b11011011, \b00000000, \b11011011, \b11011011, \b00000000, \b11011011, \b11011011,
       \b00000000, \b01100110, \b01100110, \b00011000, \b00011000, \b01100110, \b01100110, \b00000000,
       \b00000000, \b11111111, \b11111111, \b00000000, \b00000000, \b11111111, \b11111111, \b00000000,
       \b01000010, \b00100100, \b01111110, \b11011011, \b11111111, \b11111111, \b10100101, \b00100100,
       \b00000000, \b00100100, \b00000000, \b00011000, \b01000010, \b01000010, \b00111100, \b00011000,
       \b00000000, \b11011011, \b11011011, \b00000000, \b00000000, \b11011011, \b11011011, \b00000000,
       \b00000000, \b00000000, \b00111100, \b01111110, \b10101011, \b01111110, \b00111100, \b00000000,
       \b00011000, \b00111100, \b01111110, \b11011011, \b11111111, \b00100100, \b01011010, \b10100101,
       \b00011000, \b00111100, \b01111110, \b11011011, \b11111111, \b00100100, \b01011010, \b01000010,
       \b00000000, \b10000001, \b11111111, \b11011011, \b11111111, \b01111110, \b00100100, \b01000010,
       \b00010000, \b00110000, \b00010000, \b00010000, \b00010000, \b00010000, \b00010000, \b00111000,
       \b00111000, \b01000100, \b10000010, \b00000100, \b00001000, \b00010000, \b00100000, \b11111110,
       \b11111111, \b00000010, \b00000100, \b00011100, \b00000010, \b00000100, \b00001000, \b11100000
    >>

\* ---- note frequencies (SlotMachine.h:283-371) ----
NOTE_B0 == 31
NOTE_C1 == 33
NOTE_CS1 == 35
NOTE_D1 == 37
NOTE_DS1 == 39
NOTE_E1 == 41
NOTE_F1 == 44
NOTE_FS1 == 46
NOTE_G1 == 49
NOTE_GS1 == 52
NOTE_A1 == 55
NOTE_AS1 == 58
NOTE_B1 == 62
NOTE_C2 == 65
NOTE_CS2 == 69
NOTE_D2 == 73
NOTE_DS2 == 78
NOTE_E2 == 82
NOTE_F2 == 87
NOTE_FS2 == 93
NOTE_G2 == 98
NOTE_GS2 == 104
NOTE_A2 == 110
NOTE_AS2 == 117
NOTE_B2 == 123
NOTE_C3 == 131
NOTE_CS3 == 139
NOTE_D3 == 147
NOTE_DS3 == 156
NOTE_E3 == 165
NOTE_F3 == 175
NOTE_FS3 == 185
NOTE_G3 == 196
NOTE_GS3 == 208
NOTE_A3 == 220
NOTE_AS3 == 233
NOTE_B3 == 247
NOTE_C4 == 262
NOTE_CS4 == 277
\* NOTE_D4 given the value of the line above it
NOTE_D4_dup == NOTE_CS4
NOTE_D4 == 294
NOTE_DS4 == 311
NOTE_E4 == 330
NOTE_F4 == 349
NOTE_FS4 == 370
NOTE_G4 == 392
NOTE_GS4 == 415
\* NOTE_A4 given the value of the octave below
NOTE_A4_slip == NOTE_A3
NOTE_A4 == 440
NOTE_AS4 == 466
NOTE_B4 == 494
NOTE_C5 == 523
NOTE_CS5 == 554
NOTE_D5 == 587
NOTE_DS5 == 622
NOTE_E5 == 659
NOTE_F5 == 698
NOTE_FS5 == 740
NOTE_G5 == 784
NOTE_GS5 == 831
NOTE_A5 == 880
NOTE_AS5 == 932
NOTE_B5 == 988
NOTE_C6 == 1047
NOTE_CS6 == 1109
NOTE_D6 == 1175
NOTE_DS6 == 1245
NOTE_E6 == 1319
NOTE_F6 == 1397
NOTE_FS6 == 1480
NOTE_G6 == 1568
NOTE_GS6 == 1661
NOTE_A6 == 1760
NOTE_AS6 == 1865
NOTE_B6 == 1976
NOTE_C7 == 2093
NOTE_CS7 == 2217
NOTE_D7 == 2349
NOTE_DS7 == 2489
NOTE_E7 == 2637
NOTE_F7 == 2794
NOTE_FS7 == 2960
NOTE_G7 == 3136
NOTE_GS7 == 3322
NOTE_A7 == 3520
NOTE_AS7 == 3729
NOTE_B7 == 3951
NOTE_C8 == 4186
NOTE_CS8 == 4435
NOTE_D8 == 4699
NOTE_DS8 == 4978

\* The note macros in source order: the macro's name, the pitch letter and octave
\* digit that make up the name, and the value the macro expands to.
note_table ==
    <<
       [name |-> "NOTE_B0", pitch |-> "B", octave |-> 0, hz |-> NOTE_B0],
       [name |-> "NOTE_C1", pitch |-> "C", octave |-> 1, hz |-> NOTE_C1],
       [name |-> "NOTE_CS1", pitch |-> "CS", octave |-> 1, hz |-> NOTE_CS1],
       [name |-> "NOTE_D1", pitch |-> "D", octave |-> 1, hz |-> NOTE_D1],
       [name |-> "NOTE_DS1", pitch |-> "DS", octave |-> 1, hz |-> NOTE_DS1],
       [name |-> "NOTE_E1", pitch |-> "E", octave |-> 1, hz |-> NOTE_E1],
       [name |-> "NOTE_F1", pitch |-> "F", octave |-> 1, hz |-> NOTE_F1],
       [name |-> "NOTE_FS1", pitch |-> "FS", octave |-> 1, hz |-> NOTE_FS1],
       [name |-> "NOTE_G1", pitch |-> "G", octave |-> 1, hz |-> NOTE_G1],
       [name |-> "NOTE_GS1", pitch |-> "GS", octave |-> 1, hz |-> NOTE_GS1],
       [name |-> "NOTE_A1", pitch |-> "A", octave |-> 1, hz |-> NOTE_A1],
       [name |-> "NOTE_AS1", pitch |-> "AS", octave |-> 1, hz |-> NOTE_AS1],
       [name |-> "NOTE_B1", pitch |-> "B", octave |-> 1, hz |-> NOTE_B1],
       [name |-> "NOTE_C2", pitch |-> "C", octave |-> 2, hz |-> NOTE_C2],
       [name |-> "NOTE_CS2", pitch |-> "CS", octave |-> 2, hz |-> NOTE_CS2],
       [name |-> "NOTE_D2", pitch |-> "D", octave |-> 2, hz |-> NOTE_D2],
       [name |-> "NOTE_DS2", pitch |-> "DS", octave |-> 2, hz |-> NOTE_DS2],
       [name |-> "NOTE_E2", pitch |-> "E", octave |-> 2, hz |-> NOTE_E2],
       [name |-> "NOTE_F2", pitch |-> "F", octave |-> 2, hz |-> NOTE_F2],
       [name |-> "NOTE_FS2", pitch |-> "FS", octave |-> 2, hz |-> NOTE_FS2],
       [name |-> "NOTE_G2", pitch |-> "G", octave |-> 2, hz |-> NOTE_G2],
       [name |-> "NOTE_GS2", pitch |-> "GS", octave |-> 2, hz |-> NOTE_GS2],
       [name |-> "NOTE_A2", pitch |-> "A", octave |-> 2, hz |-> NOTE_A2],
       [name |-> "NOTE_AS2", pitch |-> "AS", octave |-> 2, hz |-> NOTE_AS2],
       [name |-> "NOTE_B2", pitch |-> "B", octave |-> 2, hz |-> NOTE_B2],
       [name |-> "NOTE_C3", pitch |-> "C", octave |-> 3, hz |-> NOTE_C3],
       [name |-> "NOTE_CS3", pitch |-> "CS", octave |-> 3, hz |-> NOTE_CS3],
       [name |-> "NOTE_D3", pitch |-> "D", octave |-> 3, hz |-> NOTE_D3],
       [name |-> "NOTE_DS3", pitch |-> "DS", octave |-> 3, hz |-> NOTE_DS3],
       [name |-> "NOTE_E3", pitch |-> "E", octave |-> 3, hz |-> NOTE_E3],
       [name |-> "NOTE_F3", pitch |-> "F", octave |-> 3, hz |-> NOTE_F3],
       [name |-> "NOTE_FS3", pitch |-> "FS", octave |-> 3, hz |-> NOTE_FS3],
       [name |-> "NOTE_G3", pitch |-> "G", octave |-> 3, hz |-> NOTE_G3],
       [name |-> "NOTE_GS3", pitch |-> "GS", octave |-> 3, hz |-> NOTE_GS3],
       [name |-> "NOTE_A3", pitch |-> "A", octave |-> 3, hz |-> NOTE_A3],
       [name |-> "NOTE_AS3", pitch |-> "AS", octave |-> 3, hz |-> NOTE_AS3],
       [name |-> "NOTE_B3", pitch |-> "B", octave |-> 3, hz |-> NOTE_B3],
       [name |-> "NOTE_C4", pitch |-> "C", octave |-> 4, hz |-> NOTE_C4],
       [name |-> "NOTE_CS4", pitch |-> "CS", octave |-> 4, hz |-> NOTE_CS4],
       [name |-> "NOTE_D4", pitch |-> "D", octave |-> 4, hz |-> NOTE_D4],
       [name |-> "NOTE_DS4", pitch |-> "DS", octave |-> 4, hz |-> NOTE_DS4],
       [name |-> "NOTE_E4", pitch |-> "E", octave |-> 4, hz |-> NOTE_E4],
       [name |-> "NOTE_F4", pitch |-> "F", octave |-> 4, hz |-> NOTE_F4],
       [name |-> "NOTE_FS4", pitch |-> "FS", octave |-> 4, hz |-> NOTE_FS4],
       [name |-> "NOTE_G4", pitch |-> "G", octave |-> 4, hz |-> NOTE_G4],
       [name |-> "NOTE_GS4", pitch |-> "GS", octave |-> 4, hz |-> NOTE_GS4],
       [name |-> "NOTE_A4", pitch |-> "A", octave |-> 4, hz |-> NOTE_A4],
       [name |-> "NOTE_AS4", pitch |-> "AS", octave |-> 4, hz |-> NOTE_AS4],
       [name |-> "NOTE_B4", pitch |-> "B", octave |-> 4, hz |-> NOTE_B4],
       [name |-> "NOTE_C5", pitch |-> "C", octave |-> 5, hz |-> NOTE_C5],
       [name |-> "NOTE_CS5", pitch |-> "CS", octave |-> 5, hz |-> NOTE_CS5],
       [name |-> "NOTE_D5", pitch |-> "D", octave |-> 5, hz |-> NOTE_D5],
       [name |-> "NOTE_DS5", pitch |-> "DS", octave |-> 5, hz |-> NOTE_DS5],
       [name |-> "NOTE_E5", pitch |-> "E", octave |-> 5, hz |-> NOTE_E5],
       [name |-> "NOTE_F5", pitch |-> "F", octave |-> 5, hz |-> NOTE_F5],
       [name |-> "NOTE_FS5", pitch |-> "FS", octave |-> 5, hz |-> NOTE_FS5],
       [name |-> "NOTE_G5", pitch |-> "G", octave |-> 5, hz |-> NOTE_G5],
       [name |-> "NOTE_GS5", pitch |-> "GS", octave |-> 5, hz |-> NOTE_GS5],
       [name |-> "NOTE_A5", pitch |-> "A", octave |-> 5, hz |-> NOTE_A5],
       [name |-> "NOTE_AS5", pitch |-> "AS", octave |-> 5, hz |-> NOTE_AS5],
       [name |-> "NOTE_B5", pitch |-> "B", octave |-> 5, hz |-> NOTE_B5],
       [name |-> "NOTE_C6", pitch |-> "C", octave |-> 6, hz |-> NOTE_C6],
       [name |-> "NOTE_CS6", pitch |-> "CS", octave |-> 6, hz |-> NOTE_CS6],
       [name |-> "NOTE_D6", pitch |-> "D", octave |-> 6, hz |-> NOTE_D6],
       [name |-> "NOTE_DS6", pitch |-> "DS", octave |-> 6, hz |-> NOTE_DS6],
       [name |-> "NOTE_E6", pitch |-> "E", octave |-> 6, hz |-> NOTE_E6],
       [name |-> "NOTE_F6", pitch |-> "F", octave |-> 6, hz |-> NOTE_F6],
       [name |-> "NOTE_FS6", pitch |-> "FS", octave |-> 6, hz |-> NOTE_FS6],
       [name |-> "NOTE_G6", pitch |-> "G", octave |-> 6, hz |-> NOTE_G6],
       [name |-> "NOTE_GS6", pitch |-> "GS", octave |-> 6, hz |-> NOTE_GS6],
       [name |-> "NOTE_A6", pitch |-> "A", octave |-> 6, hz |-> NOTE_A6],
       [name |-> "NOTE_AS6", pitch |-> "AS", octave |-> 6, hz |-> NOTE_AS6],
       [name |-> "NOTE_B6", pitch |-> "B", octave |-> 6, hz |-> NOTE_B6],
       [name |-> "NOTE_C7", pitch |-> "C", octave |-> 7, hz |-> NOTE_C7],
       [name |-> "NOTE_CS7", pitch |-> "CS", octave |-> 7, hz |-> NOTE_CS7],
       [name |-> "NOTE_D7", pitch |-> "D", octave |-> 7, hz |-> NOTE_D7],
       [name |-> "NOTE_DS7", pitch |-> "DS", octave |-> 7, hz |-> NOTE_DS7],
       [name |-> "NOTE_E7", pitch |-> "E", octave |-> 7, hz |-> NOTE_E7],
       [name |-> "NOTE_F7", pitch |-> "F", octave |-> 7, hz |-> NOTE_F7],
       [name |-> "NOTE_FS7", pitch |-> "FS", octave |-> 7, hz |-> NOTE_FS7],
       [name |-> "NOTE_G7", pitch |-> "G", octave |-> 7, hz |-> NOTE_G7],
       [name |-> "NOTE_GS7", pitch |-> "GS", octave |-> 7, hz |-> NOTE_GS7],
       [name |-> "NOTE_A7", pitch |-> "A", octave |-> 7, hz |-> NOTE_A7],
       [name |-> "NOTE_AS7", pitch |-> "AS", octave |-> 7, hz |-> NOTE_AS7],
       [name |-> "NOTE_B7", pitch |-> "B", octave |-> 7, hz |-> NOTE_B7],
       [name |-> "NOTE_C8", pitch |-> "C", octave |-> 8, hz |-> NOTE_C8],
       [name |-> "NOTE_CS8", pitch |-> "CS", octave |-> 8, hz |-> NOTE_CS8],
       [name |-> "NOTE_D8", pitch |-> "D", octave |-> 8, hz |-> NOTE_D8],
       [name |-> "NOTE_DS8", pitch |-> "DS", octave |-> 8, hz |-> NOTE_DS8]
    >>

\* ---- bounds of the inputs the lookups are applied to ----
MaxMenuIndex == 15
MaxGlyphIndex == 26

\* Indices and names the lookups are tried on: the valid ones, their
\* neighbours on both sides, and the spec's example of a bad index (99).
MenuInputs == ((-1) .. MaxMenuIndex) \cup {99}
GlyphInputs == (-1) .. MaxGlyphIndex
UndefinedNotes == {"NOTE_C0", "NOTE_E8", "NOTE_H4"}

\* ---- reading the tables ----
\* What an unchecked read outside an array yields is not defined by the
\* language: INDETERMINATE stands for bytes that belong to no table.
INDETERMINATE == "<indeterminate>"
NUL == "<NUL>"

Range(f) == {f[x] : x \in DOMAIN f}

\* sizeof(string_table) / sizeof(string_table[0]): the initializer has one
\* entry per string.
string_table_size == Len(string_table)

\* The C expression string_table[i].  The source indexes the array without a
\* check, so an index outside it reads whatever lies beside the table: bytes of
\* no label, or a label's (the first and the last entry stand for these).  The
\* set holds the outcomes, [ub |-> the read left the array, val |-> the text].
string_table_at(i) ==
    IF i \in 0 .. (string_table_size - 1)
    THEN {[ub |-> FALSE, val |-> string_table[i + 1]]}
    ELSE {[ub |-> TRUE, val |-> v] :
            v \in {INDETERMINATE, Head(string_table), string_table[string_table_size]}}

getMenuLabel(i) == string_table_at(i)

\* sizeof(reel): one byte per initializer.
reel_size == Len(reel)

\* Rows per glyph and the offset of glyph i in reel, as the source's offset
\* comments give them (glyph 15 at 120, 16 at 128, ... 24 at 192).
GLYPH_ROWS == 8
GlyphOffset(i) == GLYPH_ROWS * i

\* The offsets the source writes beside the glyphs, <<glyph, offset>>: the row
\* comments //0, // 8 .. // 48, // 192 and the headings "15 Alien 0 (120)" ..
\* "21 Alien 3 (168)".
reel_offset_comments ==
    { <<0, 0>>, <<1, 8>>, <<2, 16>>, <<3, 24>>, <<4, 32>>, <<5, 40>>, <<6, 48>>,
      <<15, 120>>, <<16, 128>>, <<17, 136>>, <<18, 144>>, <<19, 152>>,
      <<20, 160>>, <<21, 168>>, <<24, 192>> }

\* The rows reel[8i] .. reel[8i+7].  A row outside reel is an unchecked read:
\* the outcome is then indeterminate bytes (-1 in each row) or a glyph's rows
\* (the first and the last glyph stand for these).
GlyphRows(i) == [k \in 1 .. GLYPH_ROWS |-> reel[GlyphOffset(i) + k]]
GlyphInside(i) ==
    \A k \in 0 .. (GLYPH_ROWS - 1) : GlyphOffset(i) + k \in 0 .. (reel_size - 1)
getGlyph(i) ==
    IF GlyphInside(i)
    THEN {[ub |-> FALSE, val |-> GlyphRows(i)]}
    ELSE {[ub |-> TRUE, val |-> v] :
            v \in {[k \in 1 .. GLYPH_ROWS |-> -1]}
                  \cup {SubSeq(reel, 1, GLYPH_ROWS),
                        SubSeq(reel, reel_size - GLYPH_ROWS + 1, reel_size)}}

\* A note name is a preprocessor macro: a defined name expands to its number,
\* an undefined one is an undeclared identifier and the build stops.
NoteNames == {note_table[k].name : k \in DOMAIN note_table}
note_by_name == [n \in NoteNames |-> CHOOSE e \in Range(note_table) : e.name = n]
NoteEntry(name) == note_by_name[name]
getNoteFrequency(name) ==
    IF name \in NoteNames
    THEN [ub |-> FALSE, err |-> "", val |-> NoteEntry(name).hz]
    ELSE [ub |-> FALSE, err |-> "undeclared identifier", val |-> 0]

\* ---- the lookup machine ----
NoResult == [op |-> "none", arg |-> 0, ub |-> FALSE, err |-> "", val |-> 0]

LookupVars == <<result, prev>>
DisplayVars == <<pc, idx, pos, buffer, overrun, ien, preempted, display>>

MenuLookup ==
    \E i \in MenuInputs : \E r \in getMenuLabel(i) :
        /\ result' = [op |-> "getMenuLabel", arg |-> i, ub |-> r.ub,
                      err |-> "", val |-> r.val]
        /\ prev' = result
        /\ UNCHANGED DisplayVars

GlyphLookup ==
    \E i \in GlyphInputs : \E r \in getGlyph(i) :
        /\ result' = [op |-> "getGlyph", arg |-> i, ub |-> r.ub,
                      err |-> "", val |-> r.val]
        /\ prev' = result
        /\ UNCHANGED DisplayVars

NoteLookup ==
    \E n \in NoteNames \cup UndefinedNotes :
        /\ result' = [op |-> "getNoteFrequency", arg |-> n] @@ getNoteFrequency(n)
        /\ prev' = result
        /\ UNCHANGED DisplayVars

\* ---- the scratch buffer and the display ----
\* buffer sized for the characters of a label, without the terminating NUL
sizeof_buffer_strlen == Len(string_00)
\* buffer sized for the visible text of the longest label
sizeof_buffer_text == Len("Ship 1 Match")

\* char buffer[20]
sizeof_buffer == 20

\* Byte k of the array a string literal s initializes: its characters, then
\* the terminating NUL, sizeof = Len(s) + 1 bytes in all.
StrByte(s, k) == IF k < Len(s) THEN SubSeq(s, k + 1, k + 1) ELSE NUL
SizeofStr(s) == Len(s) + 1

\* The indices callers pass: the MENU_ constants.
MenuIndices ==
    {MENU_PAYED_OUT, MENU_WAGERED, MENU_PLAYS, MENU_2_MATCH, MENU_3_MATCH,
     MENU_SHIP_1_MATCH, MENU_SHIP_2_MATCH, MENU_SHIP_3_MATCH, MENU_1_ALIEN,
     MENU_2_ALIEN, MENU_3_ALIEN, MENU_EEPROM, MENU_CREDITS, MENU_BACK}

\* The labels the interrupt handler shows.
MaxIsrIndex == 1
IsrIndices == {i \in MenuIndices : i <= MaxIsrIndex}

\* The label a valid index selects.
Label(i) == string_table[i + 1]

\* strcpy's store of byte b at offset p of buffer: inside the array it changes
\* that element, past the end it lands in whatever follows buffer in memory.
Store(buf, p, b) == IF p < sizeof_buffer THEN [buf EXCEPT ![p] = b] ELSE buf
StoreOverruns(p) == p >= sizeof_buffer

\* The whole of strcpy(buffer, s), done in one step (the interrupt handler's).
RECURSIVE StrcpyFrom(_, _, _)
StrcpyFrom(buf, s, k) ==
    IF k >= SizeofStr(s) THEN buf ELSE StrcpyFrom(Store(buf, k, StrByte(s, k)), s, k + 1)
Strcpy(buf, s) == StrcpyFrom(buf, s, 0)
StrcpyOverruns(s) == SizeofStr(s) > sizeof_buffer

\* The characters print(buffer) sends: those before the first NUL.  With no
\* NUL inside buffer the read runs off its end and what follows is whatever
\* memory holds there: nothing more, or indeterminate characters.
RECURSIVE Chars(_, _)
Chars(buf, k) ==
    IF k >= sizeof_buffer \/ buf[k] = NUL THEN "" ELSE buf[k] \o Chars(buf, k + 1)
Terminated(buf) == \E k \in 0 .. (sizeof_buffer - 1) : buf[k] = NUL
Printed(buf) ==
    IF Terminated(buf) THEN {Chars(buf, 0)}
    ELSE {Chars(buf, 0), Chars(buf, 0) \o INDETERMINATE}

\* Printing text at column 0 of a line that shows old: the characters of old
\* beyond the width of text stay on the display.
Overwrite(old, text) ==
    IF Len(text) >= Len(old) THEN text
    ELSE text \o SubSeq(old, Len(text) + 1, Len(old))

\* Main task: begin showing label i.  A caller that guards the buffer turns
\* interrupts off (cli) for the copy and the print.
StartShow ==
    \E i \in MenuIndices : \E guarded \in BOOLEAN :
        /\ pc = "idle"
        /\ idx' = i
        /\ pos' = 0
        /\ ien' = ~guarded
        /\ preempted' = FALSE
        /\ pc' = "copy"
        /\ UNCHANGED <<buffer, overrun, display, result, prev>>

\* Main task: one iteration of strcpy(buffer, string_table[idx]).
CopyByte ==
    /\ pc = "copy"
    /\ LET b == StrByte(Label(idx), pos) IN
        /\ buffer' = Store(buffer, pos, b)
        /\ overrun' = (overrun \/ StoreOverruns(pos))
        /\ pos' = pos + 1
        /\ pc' = IF b = NUL THEN "write" ELSE "copy"
    /\ UNCHANGED <<idx, ien, preempted, display, result, prev>>

\* Main task: print(buffer).
DisplayWrite ==
    /\ pc = "write"
    /\ \E t \in Printed(buffer) :
        display' = [by |-> "main", text |-> Overwrite(display.text, t)]
    /\ pc' = "done"
    /\ UNCHANGED <<idx, pos, buffer, overrun, ien, preempted, result, prev>>

\* Main task: the label is shown; interrupts back on (sei).
Finish ==
    /\ pc = "done"
    /\ pc' = "idle"
    /\ ien' = TRUE
    /\ UNCHANGED <<idx, pos, buffer, overrun, preempted, display, result, prev>>

\* Interrupt handler that shows label j through the same buffer.  It runs to
\* completion between two steps of the main task, when interrupts are on.
Isr ==
    \E j \in IsrIndices :
        /\ ien
        /\ buffer' = Strcpy(buffer, Label(j))
        /\ overrun' = (overrun \/ StrcpyOverruns(Label(j)))
        /\ \E t \in Printed(buffer') :
            display' = [by |-> "isr", text |-> Overwrite(display.text, t)]
        /\ preempted' = (preempted \/ pc \in {"copy", "write"})
        /\ UNCHANGED <<pc, idx, pos, ien, result, prev>>

\* ---- specifications ----
Init ==
    /\ result = NoResult
    /\ prev = NoResult
    /\ pc = "idle"
    /\ idx = 0
    /\ pos = 0
    /\ buffer = [k \in 0 .. (sizeof_buffer - 1) |-> NUL]
    /\ overrun = FALSE
    /\ ien = TRUE
    /\ preempted = FALSE
    /\ display = [by |-> "none", text |-> ""]

Next == MenuLookup \/ GlyphLookup \/ NoteLookup
Spec == Init /\ [][Next]_vars

NextDisplay == StartShow \/ CopyByte \/ DisplayWrite \/ Finish \/ Isr
SpecDisplay == Init /\ [][NextDisplay]_vars

\* ---- properties of the menu labels ----
ValidLabelLookup(r) == r.op = "getMenuLabel" /\ r.arg \in 0 .. 13

\* C1 as stated: for every valid menu index 0..13 getMenuLabel returns a string
\* of exactly 20 characters, the terminator not counted.
C1_LabelHas20Chars == ValidLabelLookup(result) => Len(result.val) = 20

\* C1 as amended: for every valid menu index 0..13 getMenuLabel returns a string
\* of exactly 19 characters; with its terminating NUL the label fills 20 bytes.
C1_LabelHas19Chars ==
    ValidLabelLookup(result) =>
        /\ ~result.ub
        /\ Len(result.val) = 19
        /\ SizeofStr(result.val) = 20

\* A state where the label of MENU_CREDITS has been looked up.
C1_Witness ==
    /\ ValidLabelLookup(result)
    /\ result.arg = MENU_CREDITS
    /\ result.val = "Credits            "

\* C6: any two valid labels have the same length, so printing either over the
\* other leaves no character of the earlier one on the line.
C6_LabelsSameWidth ==
    (ValidLabelLookup(prev) /\ ValidLabelLookup(result)) =>
        /\ Len(prev.val) = Len(result.val)
        /\ Overwrite(prev.val, result.val) = result.val

\* A state where "Back" has been looked up right after "Ship 1 Match".
C6_Witness ==
    /\ ValidLabelLookup(prev) /\ ValidLabelLookup(result)
    /\ prev.arg = MENU_SHIP_1_MATCH /\ result.arg = MENU_BACK
    /\ prev.val # result.val

\* The text before the padding.
RECURSIVE RTrim(_)
RTrim(s) ==
    IF Len(s) > 0 /\ SubSeq(s, Len(s), Len(s)) = " "
    THEN RTrim(SubSeq(s, 1, Len(s) - 1)) ELSE s

\* The label each menu constant is named for.
MenuNames ==
    { <<MENU_PAYED_OUT, "PayedOut">>, <<MENU_WAGERED, "Wagered">>,
      <<MENU_PLAYS, "Plays">>, <<MENU_2_MATCH, "2 Match">>,
      <<MENU_3_MATCH, "3 Match">>, <<MENU_SHIP_1_MATCH, "Ship 1 Match">>,
      <<MENU_SHIP_2_MATCH, "Ship 2 Match">>, <<MENU_SHIP_3_MATCH, "Ship 3 Match">>,
      <<MENU_1_ALIEN, "1 Alien">>, <<MENU_2_ALIEN, "2 Alien">>,
      <<MENU_3_ALIEN, "3 Alien">>, <<MENU_EEPROM, "EEprom">>,
      <<MENU_CREDITS, "Credits">>, <<MENU_BACK, "Back">> }

\* The menu constants are 14 different numbers, 0..13.
MenuConstantsAre0To13 ==
    /\ Cardinality(MenuNames) = 14
    /\ \A m, n \in MenuNames : m[1] = n[1] => m = n
    /\ {m[1] : m \in MenuNames} = 0 .. 13

\* C5: the 14 menu constants are pairwise distinct and are exactly 0..13, and
\* the label found at each constant is the one the constant names, followed
\* only by spaces.
C5_MenuConstantsIndexLabels ==
    /\ MenuConstantsAre0To13
    /\ result.op = "getMenuLabel" =>
         \A m \in MenuNames : result.arg = m[1] => RTrim(result.val) = m[2]

\* A state where the label of MENU_EEPROM has been looked up.
C5_Witness ==
    /\ result.op = "getMenuLabel"
    /\ result.arg = MENU_EEPROM
    /\ RTrim(result.val) = "EEprom"

\* ---- properties of the glyph table ----
ValidGlyphLookup(r) == r.op = "getGlyph" /\ r.arg \in 0 .. 24

\* The extent of reel: 200 rows, 25 glyphs of 8, glyph 24 ending at the last row.
ReelHolds25Glyphs ==
    /\ reel_size = 200
    /\ reel_size = 25 * GLYPH_ROWS
    /\ GlyphInside(24) /\ ~GlyphInside(25)
    /\ GlyphOffset(24) + 7 = reel_size - 1

\* C4: reel holds exactly 25 glyphs of 8 rows: 200 entries; for every index
\* 0..24 getGlyph returns exactly 8 values, each in 0..255, read inside reel;
\* glyph 24 is the last that lies wholly inside the table.
C4_Glyphs25By8 ==
    /\ ReelHolds25Glyphs
    /\ ValidGlyphLookup(result) =>
         /\ ~result.ub
         /\ Len(result.val) = 8
         /\ \A k \in 1 .. 8 : result.val[k] \in 0 .. 255

\* A state where the last glyph (24, "three") has been looked up.
C4_Witness ==
    /\ ValidGlyphLookup(result)
    /\ result.arg = 24
    /\ result.val = <<255, 2, 4, 28, 2, 4, 8, 224>>

\* Each offset comment is 8 times its glyph number.
OffsetCommentsAre8i ==
    /\ \A c \in reel_offset_comments : c[2] = 8 * c[1] /\ c[2] = GlyphOffset(c[1])
    /\ {<<15, 120>>, <<16, 128>>, <<17, 136>>, <<18, 144>>, <<24, 192>>}
           \subseteq reel_offset_comments

\* C7: getGlyph(i) returns reel[8i] .. reel[8i+7] in order; getGlyph(18) is
\* {0,0,60,126,171,126,60,0}; the offsets written in the source's comments
\* (15 at 120, 16 at 128, 17 at 136, 18 at 144, 24 at 192, ...) equal 8 * i.
C7_GlyphsPositional ==
    /\ OffsetCommentsAre8i
    /\ ValidGlyphLookup(result) =>
         /\ \A k \in 1 .. 8 : result.val[k] = reel[8 * result.arg + k]
         /\ result.arg = 18 => result.val = <<0, 0, 60, 126, 171, 126, 60, 0>>

\* A state where glyph 18 (SpaceShip) has been looked up.
C7_Witness ==
    /\ ValidGlyphLookup(result)
    /\ result.arg = 18
    /\ result.val = <<0, 0, 60, 126, 171, 126, 60, 0>>

\* ---- properties of the note table ----
DefinedNoteLookup(r) == r.op = "getNoteFrequency" /\ r.arg \in NoteNames

\* Semitones above C0 of the pitch a note's name spells: the octave digit
\* times 12 plus the place of the letter (S = sharp) within the octave.
PitchClass(p) ==
    CASE p = "C" -> 0 [] p = "CS" -> 1 [] p = "D" -> 2 [] p = "DS" -> 3
      [] p = "E" -> 4 [] p = "F" -> 5 [] p = "FS" -> 6 [] p = "G" -> 7
      [] p = "GS" -> 8 [] p = "A" -> 9 [] p = "AS" -> 10 [] p = "B" -> 11
EntryRank(e) == 12 * e.octave + PitchClass(e.pitch)
PitchRank(name) == EntryRank(NoteEntry(name))

\* The table lists the notes from low to high pitch, B0 first and DS8 last.
NotesListedAscending ==
    /\ \A k \in 1 .. (Len(note_table) - 1) :
          EntryRank(note_table[k]) < EntryRank(note_table[k + 1])
    /\ note_table[1].name = "NOTE_B0"
    /\ note_table[Len(note_table)].name = "NOTE_DS8"

\* C3: every defined note maps to a positive integer, and whenever note a is
\* below note b in pitch/octave order, frequency(a) < frequency(b); the notes
\* are listed B0, C1, CS1, ..., D8, DS8 in that order.
C3_NotesStrictlyIncreasing ==
    /\ NotesListedAscending
    /\ DefinedNoteLookup(result) => result.err = "" /\ result.val > 0
    /\ (DefinedNoteLookup(prev) /\ DefinedNoteLookup(result)
          /\ PitchRank(prev.arg) < PitchRank(result.arg)) => prev.val < result.val

\* A state where NOTE_C5 has been looked up right after NOTE_C4.
C3_Witness ==
    /\ DefinedNoteLookup(prev) /\ DefinedNoteLookup(result)
    /\ prev.arg = "NOTE_C4" /\ result.arg = "NOTE_C5"
    /\ prev.val = 262 /\ result.val = 523

\* No note is below NOTE_B0 or above NOTE_DS8 in pitch.
LowestAndHighestNote ==
    \A e \in Range(note_table) :
        /\ PitchRank("NOTE_B0") <= EntryRank(e)
        /\ EntryRank(e) <= PitchRank("NOTE_DS8")

\* C8: getNoteFrequency returns the number defined for the note: NOTE_A4 is
\* 440, the lowest note NOTE_B0 is 31, the highest NOTE_DS8 is 4978, and every
\* defined note lies in 31..4978.
C8_NoteValues ==
    DefinedNoteLookup(result) =>
        /\ result.val \in 31 .. 4978
        /\ result.arg = "NOTE_A4" => result.val = 440
        /\ result.arg = "NOTE_B0" => result.val = 31
        /\ result.arg = "NOTE_DS8" => result.val = 4978
        /\ LowestAndHighestNote

\* A state where NOTE_A4 has been looked up.
C8_Witness ==
    /\ DefinedNoteLookup(result)
    /\ result.arg = "NOTE_A4"
    /\ result.val = 440

\* ---- invalid lookups ----
\* C2: a lookup with a menu index outside 0..13, a glyph index outside 0..24
\* or a name that is no defined note ends in a defined error: it returns no
\* data and reads nothing outside the table.
C2_InvalidLookupFails ==
    /\ (result.op = "getMenuLabel" /\ result.arg \notin 0 .. 13) =>
          ~result.ub /\ result.err # ""
    /\ (result.op = "getGlyph" /\ result.arg \notin 0 .. 24) =>
          ~result.ub /\ result.err # ""
    /\ (result.op = "getNoteFrequency" /\ result.arg \notin NoteNames) =>
          ~result.ub /\ result.err # ""

\* ---- properties of the scratch buffer ----
\* Each label with its NUL is no larger than buffer.
EveryLabelFits == \A i \in 0 .. 13 : SizeofStr(Label(i)) <= sizeof_buffer

\* C9: copying any label 0..13 with its terminating NUL into the 20-byte
\* buffer stores only at buffer[0] .. buffer[19], never past its end.
C9_CopyStaysInBuffer ==
    /\ ~overrun
    /\ pc = "copy" => pos \in 0 .. 19
    /\ pc = "write" => pos <= 20 /\ Terminated(buffer)
    /\ EveryLabelFits

\* A state where the main task has copied all 20 bytes of "Ship 3 Match".
C9_Witness ==
    /\ pc = "write"
    /\ idx = MENU_SHIP_3_MATCH
    /\ pos = 20
    /\ buffer[19] = NUL
    /\ Chars(buffer, 0) = Label(MENU_SHIP_3_MATCH)

\* The main task has printed and its line is still on the display.
MainPrinted == pc = "done" /\ display.by = "main"

\* C10, single writer: when the handler did not use the buffer between the
\* main task's copy and its print (as when the caller keeps interrupts off),
\* the main task prints exactly the label it copied.
C10_SingleWriterSafe ==
    /\ (pc \in {"copy", "write"} /\ ~ien) => ~preempted
    /\ (MainPrinted /\ ~preempted) => display.text = Label(idx)

\* C10, concurrent reuse: a state where the handler staged another label in
\* between and the main task printed characters that are not its own label.
C10_Witness ==
    /\ MainPrinted
    /\ preempted
    /\ display.text # Label(idx)

\* A state where a guarded main task printed its own label.
C10_GuardedPrint ==
    /\ MainPrinted
    /\ ~ien
    /\ display.text = Label(idx)

=============================================================================
